---- MODULE Spec2Model ----
(***************************************************************************)
(* A model of jupyterhub_service_page.core.Service: the configuration      *)
(* values and their default rules, initialize() and the steps it runs,     *)
(* init_webapp() and start(), the logger registry init_logging() rewires   *)
(* and the template loader chain init_loader() builds.                     *)
(*                                                                         *)
(* Strings are sequences of tokens; "/" is always a token of its own, so   *)
(* that concatenation, strip('/') and the split of a template name work    *)
(* on them as they do on Python strings.                                   *)
(***************************************************************************)
EXTENDS Integers, Sequences, FiniteSets, TLC

\* ------------------------------------------------------------------------
\* Bounds of the model
\* ------------------------------------------------------------------------

\* host operations (reads, writes, list edits) explored after initialize()
MaxHostOps == 2

\* longest service_prefix drawn for the url join
MaxPrefixLen == 4

\* ------------------------------------------------------------------------
\* Strings
\* ------------------------------------------------------------------------

SLASH == "/"

Str(n, alphabet) == UNION {[1..k -> alphabet] : k \in 0..n}

Last(s) == s[Len(s)]

RECURSIVE LStrip(_)
LStrip(s) == IF s # <<>> /\ Head(s) = SLASH THEN LStrip(Tail(s)) ELSE s

RECURSIVE RStrip(_)
RStrip(s) ==
    IF s # <<>> /\ Last(s) = SLASH THEN RStrip(SubSeq(s, 1, Len(s) - 1)) ELSE s

\* str.strip('/')
Strip(s) == RStrip(LStrip(s))

\* jupyterhub.utils.url_path_join(a, b), as called by default_static_url_prefix
url_path_join(a, b) ==
    LET initial == a # <<>> /\ Head(a) = SLASH
        final == b # <<>> /\ Last(b) = SLASH
        sa == Strip(a)
        sb == Strip(b)
        result == IF sa # <<>> /\ sb # <<>> THEN sa \o <<SLASH>> \o sb ELSE sa \o sb
        r1 == IF initial THEN <<SLASH>> \o result ELSE result
        r2 == IF final THEN r1 \o <<SLASH>> ELSE r1
    IN  IF r2 = <<SLASH, SLASH>> THEN <<SLASH>> ELSE r2

\* os.path.join(DATA_FILES_PATH, rel)
DATA_FILES_PATH == <<"DATA">>

PathJoin(a, b) == a \o <<SLASH>> \o b

\* ------------------------------------------------------------------------
\* Configuration values (traits)
\* ------------------------------------------------------------------------

TraitNames ==
    {"name", "config_file", "generate_config", "service_prefix",
     "static_url_prefix", "static_path", "logo_file", "port", "template_paths"}

\* the values with a @default rule
DynTraits ==
    {"name", "config_file", "service_prefix", "static_url_prefix",
     "static_path", "logo_file"}

\* the value a slot holds while the trait has none
NoVal ==
    [name |-> <<>>, config_file |-> <<>>, generate_config |-> FALSE,
     service_prefix |-> <<>>, static_url_prefix |-> <<>>, static_path |-> <<>>,
     logo_file |-> <<>>, port |-> 0, template_paths |-> <<>>]

DefaultPort == 8888

\* A configuration object (command line, config file): the assigned traits
EmptyConfig == [has |-> {}, val |-> NoVal]

Cfg1(t, v) == [has |-> {t}, val |-> [NoVal EXCEPT ![t] = v]]

\* Config.merge: b's assignments win
Merge(a, b) ==
    [has |-> a.has \cup b.has,
     val |-> [t \in TraitNames |-> IF t \in b.has THEN b.val[t] ELSE a.val[t]]]

\* The trait store of a fresh Service: the static defaults are values already
\* (generate_config = False, port = 8888, template_paths = []); `explicit` and
\* `evals` record which values were assigned and how often a default rule ran.
NewTraits ==
    [has |-> {"generate_config", "port", "template_paths"},
     val |-> [NoVal EXCEPT !.port = DefaultPort],
     explicit |-> {},
     evals |-> [t \in DynTraits |-> 0]]

\* an assignment: self.t = v
SetTrait(st, t, v) ==
    [st EXCEPT !.has = @ \cup {t}, !.val[t] = v, !.explicit = @ \cup {t}]

\* a default rule whose result is returned but not kept
Memo_not_stored(st, t, v) ==
    [st EXCEPT !.val[t] = v, !.evals[t] = @ + 1]

\* first read of a value with a default rule: the result is stored
Memo(st, t, v) ==
    [st EXCEPT !.has = @ \cup {t}, !.val[t] = v, !.evals[t] = @ + 1]

\* inspect.getmodule(self).__name__.split(".")[0]
ModuleName == <<"jupyterhub_service_page">>

default_name == ModuleName

default_config_file(name) == name \o <<"_config.py">>

default_service_prefix(name, env) ==
    IF env.set THEN env.val ELSE <<SLASH, "services", SLASH>> \o name \o <<SLASH>>

\* a default that concatenates instead of joining
default_static_url_prefix_concat(service_prefix) ==
    service_prefix \o <<"static", SLASH>>

default_static_url_prefix(service_prefix) ==
    url_path_join(service_prefix, <<"static", SLASH>>)

default_static_path == PathJoin(DATA_FILES_PATH, <<"static">>)

default_logo_file ==
    PathJoin(DATA_FILES_PATH, <<"static", SLASH, "images", SLASH, "jupyterhub-80.png">>)

\* Reading a value: the stored value if there is one, else the default rule's
\* result, which is stored.  The rule's own reads are reads too.
ReadName(st) ==
    IF "name" \in st.has THEN st ELSE Memo(st, "name", default_name)

ReadConfigFile(st) ==
    IF "config_file" \in st.has THEN st
    ELSE LET s1 == ReadName(st)
         IN  Memo(s1, "config_file", default_config_file(s1.val.name))

\* os.environ.get(KEY, f"/services/{self.name}/") evaluates its second argument,
\* and so reads name, whether or not the variable is set
ReadServicePrefix(st, env) ==
    IF "service_prefix" \in st.has THEN st
    ELSE LET s1 == ReadName(st)
         IN  Memo(s1, "service_prefix", default_service_prefix(s1.val.name, env))

ReadStaticUrlPrefix(st, env) ==
    IF "static_url_prefix" \in st.has THEN st
    ELSE LET s1 == ReadServicePrefix(st, env)
         IN  Memo(s1, "static_url_prefix",
                  default_static_url_prefix(s1.val.service_prefix))

ReadStaticPath(st) ==
    IF "static_path" \in st.has THEN st
    ELSE Memo(st, "static_path", default_static_path)

ReadLogoFile(st) ==
    IF "logo_file" \in st.has THEN st ELSE Memo(st, "logo_file", default_logo_file)

Read(st, t, env) ==
    CASE t = "name" -> ReadName(st)
      [] t = "config_file" -> ReadConfigFile(st)
      [] t = "service_prefix" -> ReadServicePrefix(st, env)
      [] t = "static_url_prefix" -> ReadStaticUrlPrefix(st, env)
      [] t = "static_path" -> ReadStaticPath(st)
      [] t = "logo_file" -> ReadLogoFile(st)
      [] OTHER -> st

\* ------------------------------------------------------------------------
\* The generated configuration script and the config-file loader
\* ------------------------------------------------------------------------

\* The traits in the order the script lists them, with the class-level default
\* each line shows (a value with a @default rule shows its static default).
ScriptOrder ==
    <<"config_file", "generate_config", "logo_file", "name", "port",
      "service_prefix", "static_path", "static_url_prefix", "template_paths">>

ClassDefault == [NoVal EXCEPT !.port = DefaultPort]

\* a generator that writes the instance's explicit values as assignments
generate_config_file_current(st) ==
    [i \in 1..Len(ScriptOrder) |->
        [active |-> ScriptOrder[i] \in st.explicit, trait |-> ScriptOrder[i],
         val |-> st.val[ScriptOrder[i]]]]

\* self.generate_config_file(): "generate default config file from
\* Configurables": one commented-out assignment `# c.Service.t = <default>` per
\* configurable trait, whatever the instance's current values are
generate_config_file(st) ==
    [i \in 1..Len(ScriptOrder) |->
        [active |-> FALSE, trait |-> ScriptOrder[i],
         val |-> ClassDefault[ScriptOrder[i]]]]

\* Executing a script as a config file: only the lines that are not comments
\* assign
ParseScript(script) ==
    LET act == {i \in 1..Len(script) : script[i].active}
    IN  [has |-> {script[i].trait : i \in act},
         val |-> [t \in TraitNames |->
                    IF \E i \in act : script[i].trait = t
                    THEN script[CHOOSE i \in act : script[i].trait = t].val
                    ELSE NoVal[t]]]

\* update_config / _load_config: every assignment of the config is a setattr
ApplyConfig(st, cfg) ==
    [st EXCEPT !.has = @ \cup cfg.has,
               !.explicit = @ \cup cfg.has,
               !.val = [t \in TraitNames |->
                           IF t \in cfg.has THEN cfg.val[t] ELSE @[t]]]

\* the file system as the loader sees it: a file is missing or holds a config
NoFile == [exists |-> FALSE, cfg |-> EmptyConfig]

FileOf(fs, filename) == IF filename \in DOMAIN fs THEN fs[filename] ELSE NoFile

\* ------------------------------------------------------------------------
\* The logger registry
\* ------------------------------------------------------------------------

\* the formatter init_logging builds: _log_formatter_cls(fmt=log_format,
\* datefmt=log_datefmt)
CustomFormatter ==
    [cls |-> "CoroutineLogFormatter", fmt |-> "log_format", datefmt |-> "log_datefmt"]

PlainFormatter == [cls |-> "Formatter", fmt |-> "default", datefmt |-> "default"]

\* The registry before init_logging: the loggers as the logging module makes
\* them.  The service logger (self.log) has one handler, whose formatter is the
\* one it was created or handed over with.
NewLoggers(fmtr) ==
    [service |-> [name |-> "Service", propagate |-> TRUE, level |-> "INFO",
                  handlers |-> <<[owner |-> "service", formatter |-> fmtr]>>],
     root |-> [handlers |-> <<[owner |-> "root", formatter |-> PlainFormatter]>>],
     tornado |-> [propagate |-> TRUE, parent |-> "root", level |-> "NOTSET"],
     app_log |-> "tornado.application",
     access_log |-> "tornado.access",
     gen_log |-> "tornado.general"]

\* init_logging: _formatter is built and dropped; no handler is touched
init_logging(lg) ==
    [lg EXCEPT !.service.propagate = FALSE,
               !.app_log = lg.service.name,
               !.access_log = lg.service.name,
               !.gen_log = lg.service.name,
               !.tornado.propagate = TRUE,
               !.tornado.parent = "service",
               !.tornado.level = lg.service.level]

\* Logger.callHandlers: the handlers a record emitted on `origin` reaches, in
\* order.  The three tornado loggers are children of `tornado`, propagate and
\* have no handlers of their own.
HandlersFromService(lg) ==
    lg.service.handlers \o (IF lg.service.propagate THEN lg.root.handlers ELSE <<>>)

HandlersFromTornado(lg) ==
    IF ~lg.tornado.propagate THEN <<>>
    ELSE IF lg.tornado.parent = "service" THEN HandlersFromService(lg)
    ELSE lg.root.handlers

Delivered(lg, origin) ==
    IF origin = "service" THEN HandlersFromService(lg) ELSE HandlersFromTornado(lg)

LogOrigins == {"service", "tornado", "app_log", "access_log", "gen_log"}

\* ------------------------------------------------------------------------
\* Templates
\* ------------------------------------------------------------------------

\* base_template_paths()
base_template_paths(name) ==
    <<PathJoin(DATA_FILES_PATH, name \o <<SLASH, "templates">>),
      PathJoin(DATA_FILES_PATH, <<"templates">>)>>

\* a loader chain whose prefix loader searches every path
init_loader_all_paths(name, template_paths) ==
    LET paths == base_template_paths(name)
    IN  <<[kind |-> "prefix", prefix |-> "templates",
           searchpath |-> template_paths \o paths],
          [kind |-> "fs", prefix |-> "", searchpath |-> template_paths \o paths]>>

\* init_loader: ChoiceLoader([PrefixLoader({"templates":
\* FileSystemLoader(paths[:1])}, "/"), FileSystemLoader(template_paths + paths)])
init_loader(name, template_paths) ==
    LET paths == base_template_paths(name)
    IN  <<[kind |-> "prefix", prefix |-> "templates",
           searchpath |-> SubSeq(paths, 1, 1)],
          [kind |-> "fs", prefix |-> "", searchpath |-> template_paths \o paths]>>

NotFound == [found |-> FALSE, dir |-> <<>>, file |-> <<>>]

\* FileSystemLoader.get_source: the first search path that holds the file.
\* `disk` maps a directory to the set of relative file names it holds.
RECURSIVE FsGetSource(_, _, _)
FsGetSource(searchpath, disk, file) ==
    IF searchpath = <<>> THEN NotFound
    ELSE IF Head(searchpath) \in DOMAIN disk /\ file \in disk[Head(searchpath)]
         THEN [found |-> TRUE, dir |-> Head(searchpath), file |-> file]
         ELSE FsGetSource(Tail(searchpath), disk, file)

\* PrefixLoader.get_loader: template.split("/", 1); the prefix must be a key of
\* the mapping, the rest is looked up in the mapped loader
LoaderGetSource(ld, disk, template) ==
    IF ld.kind = "fs" THEN FsGetSource(ld.searchpath, disk, template)
    ELSE IF Len(template) >= 3 /\ template[1] = ld.prefix /\ template[2] = SLASH
         THEN FsGetSource(ld.searchpath, disk, SubSeq(template, 3, Len(template)))
         ELSE NotFound

\* ChoiceLoader.get_source: the first loader that finds the template
RECURSIVE ChoiceGetSource(_, _, _)
ChoiceGetSource(loaders, disk, template) ==
    IF loaders = <<>> THEN NotFound
    ELSE LET r == LoaderGetSource(Head(loaders), disk, template)
         IN  IF r.found THEN r ELSE ChoiceGetSource(Tail(loaders), disk, template)

\* ------------------------------------------------------------------------
\* The service object and initialize()
\* ------------------------------------------------------------------------

StaticFileHandler == "StaticFileHandler"
LogoHandler == "LogoHandler"

NoSettings == [k \in {} |-> <<>>]

NoWebapp == [made |-> FALSE, rules |-> <<>>, settings |-> NoSettings]

NoLoad == [done |-> FALSE, exists |-> FALSE, file |-> <<>>, evald |-> {},
           explicit_before |-> {}, cfg |-> EmptyConfig, after |-> NewTraits]

\* A Service after construction with keyword arguments `kw`; `calls` is the
\* record of the steps run, `load` of the config-file load, `gen_seen` of the
\* value of generate_config that handle_config saw.
NewService(kw, fmtr) ==
    [traits |-> ApplyConfig(NewTraits, kw),
     cli_config |-> EmptyConfig,
     rules |-> <<>>,
     settings |-> NoSettings,
     loader |-> <<>>,
     webapp |-> NoWebapp,
     loggers |-> NewLoggers(fmtr),
     exited |-> FALSE,
     exit_code |-> -1,
     stdout |-> <<>>,
     calls |-> <<>>,
     gen_seen |-> FALSE,
     load |-> NoLoad]

Called(w, step) == [w EXCEPT !.calls = Append(@, step)]

\* the flags table: --generate-config sets Service.generate_config = True
flags(argv) ==
    IF \E i \in 1..Len(argv) : argv[i] = "--generate-config"
    THEN Cfg1("generate_config", TRUE)
    ELSE EmptyConfig

\* super().initialize(argv): parse the command line and apply its config
parse_command_line(w, argv) ==
    LET cli == flags(argv)
    IN  [Called(w, "parse_command_line") EXCEPT
            !.cli_config = cli,
            !.traits = ApplyConfig(@, cli)]

\* self.load_config_file(name): a missing file is skipped; the command line's
\* config is merged over the file's, and the result applied
load_config_file(w, filename, fs) ==
    LET f == FileOf(fs, filename)
        new_config == Merge(IF f.exists THEN f.cfg ELSE EmptyConfig, w.cli_config)
        st == ApplyConfig(w.traits, new_config)
    IN  [w EXCEPT !.traits = st,
                  !.load = [done |-> TRUE, exists |-> f.exists, file |-> filename,
                            evald |-> {t \in DynTraits : w.traits.evals[t] > 0},
                            explicit_before |-> w.traits.explicit,
                            cfg |-> IF f.exists THEN f.cfg ELSE EmptyConfig,
                            after |-> st]]

\* a handle_config whose generate branch falls through instead of exiting
handle_config_no_exit(w, fs) ==
    LET w0 == [Called(w, "handle_config") EXCEPT
                  !.gen_seen = w.traits.val.generate_config]
        w1 == IF w.traits.val.generate_config
              THEN [w0 EXCEPT !.stdout = generate_config_file(w.traits)]
              ELSE w0
        st == ReadConfigFile(w1.traits)
        w2 == [w1 EXCEPT !.traits = st]
    IN  IF st.val.config_file # <<>>
        THEN load_config_file(w2, st.val.config_file, fs)
        ELSE w2

\* handle_config
handle_config(w, fs) ==
    LET w0 == [Called(w, "handle_config") EXCEPT
                  !.gen_seen = w.traits.val.generate_config]
    IN  IF w.traits.val.generate_config
        THEN [w0 EXCEPT !.stdout = generate_config_file(w.traits),
                        !.exited = TRUE,
                        !.exit_code = 0]
        ELSE LET st == ReadConfigFile(w0.traits)
                 w1 == [w0 EXCEPT !.traits = st]
             IN  IF st.val.config_file # <<>>
                 THEN load_config_file(w1, st.val.config_file, fs)
                 ELSE w1

\* static_file_handler_rule
static_file_handler_rule(st) ==
    [pattern |-> st.val.service_prefix \o <<"static", SLASH, "(.*)">>,
     handler |-> StaticFileHandler,
     path |-> st.val.static_path]

\* logo_handler_rule
logo_handler_rule(st) ==
    [pattern |-> st.val.service_prefix \o <<"logo">>,
     handler |-> LogoHandler,
     path |-> st.val.logo_file]

\* an init_rules that lists the logo rule first
init_rules_swapped(w, env) ==
    LET st == ReadLogoFile(ReadStaticPath(ReadServicePrefix(w.traits, env)))
    IN  [Called(w, "init_rules") EXCEPT
            !.traits = st,
            !.rules = <<logo_handler_rule(st), static_file_handler_rule(st)>>]

\* init_rules
init_rules(w, env) ==
    LET st == ReadLogoFile(ReadStaticPath(ReadServicePrefix(w.traits, env)))
    IN  [Called(w, "init_rules") EXCEPT
            !.traits = st,
            !.rules = <<static_file_handler_rule(st), logo_handler_rule(st)>>]

\* init_settings
init_settings(w, env) ==
    LET st == ReadStaticUrlPrefix(ReadStaticPath(w.traits), env)
    IN  [Called(w, "init_settings") EXCEPT
            !.traits = st,
            !.settings = [static_path |-> st.val.static_path,
                          static_url_prefix |-> st.val.static_url_prefix]]

\* init_loader, on the service
init_loader_step(w) ==
    LET st == ReadName(w.traits)
    IN  [Called(w, "init_loader") EXCEPT
            !.traits = st,
            !.loader = init_loader(st.val.name, st.val.template_paths)]

\* init_logging, on the service
init_logging_step(w) ==
    [Called(w, "init_logging") EXCEPT !.loggers = init_logging(@)]

\* an initialize that assembles the rules before it handles the config
initialize_rules_first(w, argv, env, fs) ==
    LET w1 == init_rules(parse_command_line(Called(w, "initialize"), argv), env)
        w2 == handle_config(w1, fs)
    IN  IF w2.exited THEN w2
        ELSE init_loader_step(init_settings(init_logging_step(w2), env))

\* initialize: sys.exit() in handle_config ends the run there
initialize(w, argv, env, fs) ==
    LET w1 == parse_command_line(Called(w, "initialize"), argv)
        w2 == handle_config(w1, fs)
    IN  IF w2.exited THEN w2
        ELSE init_loader_step(
                init_settings(init_rules(init_logging_step(w2), env), env))

\* an init_webapp that puts the service's rules first
init_webapp_builtin_first(w, extra) ==
    [Called(w, "init_webapp") EXCEPT
        !.webapp = [made |-> TRUE, rules |-> w.rules \o extra, settings |-> w.settings]]

\* init_webapp: web.Application(rules + self.rules, **self.settings); the
\* concatenation and the keyword expansion are copies
init_webapp(w, extra) ==
    [Called(w, "init_webapp") EXCEPT
        !.webapp = [made |-> TRUE, rules |-> extra \o w.rules, settings |-> w.settings]]

\* a start that builds the application again from the current lists
start_rebuilding(w) ==
    [port |-> w.traits.val.port, rules |-> w.rules, settings |-> w.settings]

\* start: self.webapp.listen(self.port): what is bound and what is served
start(w) ==
    [port |-> w.traits.val.port, rules |-> w.webapp.rules,
     settings |-> w.webapp.settings]

\* ------------------------------------------------------------------------
\* State
\* ------------------------------------------------------------------------

VARIABLES
    svc,        \* the Service object
    env,        \* os.environ's JUPYTERHUB_SERVICE_PREFIX
    fs,         \* the config files in the working directory
    phase,      \* "created", "initialized", "exited" or "running"
    served,     \* what start() bound and serves
    ops,        \* host operations since initialize() returned
    ret,        \* history: the service as initialize() returned it
    lastRead,   \* history: the value each host read returned, until a write
    firstRead,  \* history: the value the first host read of each returned
    lastSet,    \* history: the host's latest assignment
    webcall,    \* history: the arguments of the latest init_webapp()
    firstcall,  \* history: the arguments of the first init_webapp()
    extras,     \* the host's list, as passed to the latest init_webapp()
    jn,         \* the url join under test
    tl,         \* the template lookup under test
    rt          \* the generate-config round trip under test

mainvars ==
    <<svc, env, fs, phase, served, ops, ret, lastRead, firstRead, lastSet,
      webcall, firstcall, extras>>

vars == <<svc, env, fs, phase, served, ops, ret, lastRead, firstRead, lastSet,
          webcall, firstcall, extras, jn, tl, rt>>

\* ------------------------------------------------------------------------
\* Inputs
\* ------------------------------------------------------------------------

NoEnv == [set |-> FALSE, val |-> <<>>]

Envs == {NoEnv, [set |-> TRUE, val |-> <<SLASH, "hub", SLASH>>]}

\* keyword arguments of the constructor
KwNames == {EmptyConfig, Cfg1("name", <<"demo">>)}

KwPrefixes == {EmptyConfig, Cfg1("service_prefix", <<SLASH, "p">>)}

KwConfigFiles ==
    {EmptyConfig, Cfg1("config_file", <<"demo", "_config.py">>),
     Cfg1("config_file", <<>>)}

Formatters == {CustomFormatter, PlainFormatter}

Argvs == {<<>>, <<"--generate-config">>}

\* the config files a run may find
ConfigFileNames == {default_config_file(ModuleName), default_config_file(<<"demo">>)}

FileContents ==
    {NoFile,
     [exists |-> TRUE, cfg |-> Cfg1("name", <<"other">>)],
     [exists |-> TRUE, cfg |-> Cfg1("service_prefix", <<SLASH, "f", SLASH>>)]}

\* what the host reads and assigns between initialize() and start()
HostTraits == {"name", "service_prefix", "static_url_prefix"}

HostValue == [name |-> <<"host">>, service_prefix |-> <<SLASH, "h", SLASH>>]

HostRule == [pattern |-> <<SLASH, "host">>, handler |-> "HostHandler", path |-> <<>>]

ExtraRule == [pattern |-> <<SLASH, "extra">>, handler |-> "ExtraHandler", path |-> <<>>]

ExtraRuleLists == {<<>>, <<ExtraRule>>}

NoServed == [port |-> 0, rules |-> <<>>, settings |-> NoSettings]

NoRet == [done |-> FALSE, rules |-> <<>>, traits |-> NewTraits, env |-> NoEnv]

NoRead == [done |-> FALSE, val |-> <<>>]

NoSet == [done |-> FALSE, t |-> "", v |-> <<>>, before |-> NewTraits]

NoCall == [done |-> FALSE, extra |-> <<>>, rules |-> <<>>, settings |-> NoSettings]

JnIdle == [phase |-> "idle", prefix |-> <<>>, result |-> <<>>]

TlIdle == [phase |-> "idle", template_paths |-> <<>>, disk |-> <<>>,
           template |-> <<>>, result |-> NotFound]

RtIdle == [phase |-> "idle", kw |-> EmptyConfig, env |-> NoEnv, script |-> <<>>,
           first |-> NewTraits, second |-> NewTraits, second_load |-> NoLoad]

\* ------------------------------------------------------------------------
\* The service's life: Init and the host's operations
\* ------------------------------------------------------------------------

Init ==
    /\ \E kn \in KwNames, kp \in KwPrefixes, kc \in KwConfigFiles, f \in Formatters :
          svc = NewService(Merge(Merge(kn, kp), kc), f)
    /\ env \in Envs
    /\ fs \in [ConfigFileNames -> FileContents]
    /\ phase = "created"
    /\ served = NoServed
    /\ ops = 0
    /\ ret = NoRet
    /\ lastRead = [t \in HostTraits |-> NoRead]
    /\ firstRead = [t \in HostTraits |-> NoRead]
    /\ lastSet = NoSet
    /\ webcall = NoCall
    /\ firstcall = NoCall
    /\ extras = <<>>
    /\ jn = JnIdle
    /\ tl = TlIdle
    /\ rt = RtIdle

\* the host calls service.initialize(argv)
Initialize ==
    /\ phase = "created"
    /\ \E argv \in Argvs :
          LET w == initialize(svc, argv, env, fs)
          IN  /\ svc' = w
              /\ phase' = IF w.exited THEN "exited" ELSE "initialized"
              /\ ret' = IF w.exited THEN ret
                        ELSE [done |-> TRUE, rules |-> w.rules,
                              traits |-> w.traits, env |-> env]
    /\ UNCHANGED <<env, fs, served, ops, lastRead, firstRead, lastSet, webcall,
                   firstcall, extras, jn, tl, rt>>

HostMay == phase = "initialized" /\ ops < MaxHostOps

\* the host reads service.t
HostRead ==
    /\ HostMay
    /\ \E t \in HostTraits :
          LET st == Read(svc.traits, t, env)
              r == [done |-> TRUE, val |-> st.val[t]]
          IN  /\ svc' = [svc EXCEPT !.traits = st]
              /\ lastRead' = [lastRead EXCEPT ![t] = r]
              /\ firstRead' = IF firstRead[t].done THEN firstRead
                              ELSE [firstRead EXCEPT ![t] = r]
    /\ lastSet' = NoSet
    /\ ops' = ops + 1
    /\ UNCHANGED <<env, fs, phase, served, ret, webcall, firstcall, extras, jn, tl, rt>>

\* the host assigns service.t = v
HostSet ==
    /\ HostMay
    /\ \E t \in DOMAIN HostValue :
          /\ svc' = [svc EXCEPT !.traits = SetTrait(@, t, HostValue[t])]
          /\ lastSet' = [done |-> TRUE, t |-> t, v |-> HostValue[t],
                         before |-> svc.traits]
          /\ lastRead' = [lastRead EXCEPT ![t] = NoRead]
    /\ ops' = ops + 1
    /\ UNCHANGED <<env, fs, phase, served, ret, firstRead, webcall, firstcall,
                   extras, jn, tl, rt>>

\* the environment variable changes under the running process
SetEnv ==
    /\ HostMay
    /\ \E e \in Envs \ {env} : env' = e
    /\ ops' = ops + 1
    /\ UNCHANGED <<svc, fs, phase, served, ret, lastRead, firstRead, lastSet,
                   webcall, firstcall, extras, jn, tl, rt>>

\* the host edits service.rules
HostAppendRule ==
    /\ HostMay
    /\ svc' = [svc EXCEPT !.rules = Append(@, HostRule)]
    /\ ops' = ops + 1
    /\ UNCHANGED <<env, fs, phase, served, ret, lastRead, firstRead, lastSet,
                   webcall, firstcall, extras, jn, tl, rt>>

HostDeleteRule ==
    /\ HostMay
    /\ svc.rules # <<>>
    /\ svc' = [svc EXCEPT !.rules = Tail(@)]
    /\ ops' = ops + 1
    /\ UNCHANGED <<env, fs, phase, served, ret, lastRead, firstRead, lastSet,
                   webcall, firstcall, extras, jn, tl, rt>>

\* the host edits service.settings
HostAddSetting ==
    /\ HostMay
    /\ "debug" \notin DOMAIN svc.settings
    /\ svc' = [svc EXCEPT !.settings =
                 [k \in DOMAIN @ \cup {"debug"} |->
                    IF k = "debug" THEN <<"on">> ELSE @[k]]]
    /\ ops' = ops + 1
    /\ UNCHANGED <<env, fs, phase, served, ret, lastRead, firstRead, lastSet,
                   webcall, firstcall, extras, jn, tl, rt>>

HostDeleteSetting ==
    /\ HostMay
    /\ "static_path" \in DOMAIN svc.settings
    /\ svc' = [svc EXCEPT !.settings =
                 [k \in DOMAIN @ \ {"static_path"} |-> @[k]]]
    /\ ops' = ops + 1
    /\ UNCHANGED <<env, fs, phase, served, ret, lastRead, firstRead, lastSet,
                   webcall, firstcall, extras, jn, tl, rt>>

\* the host runs init_logging() again
HostInitLogging ==
    /\ HostMay
    /\ svc' = init_logging_step(svc)
    /\ ops' = ops + 1
    /\ UNCHANGED <<env, fs, phase, served, ret, lastRead, firstRead, lastSet,
                   webcall, firstcall, extras, jn, tl, rt>>

\* the host calls service.init_webapp(extra)
InitWebapp ==
    /\ HostMay
    /\ \E extra \in ExtraRuleLists :
          LET c == [done |-> TRUE, extra |-> extra, rules |-> svc.rules,
                    settings |-> svc.settings]
          IN  /\ svc' = init_webapp(svc, extra)
              /\ webcall' = c
              /\ extras' = extra
              /\ firstcall' = IF firstcall.done THEN firstcall ELSE c
    /\ ops' = ops + 1
    /\ UNCHANGED <<env, fs, phase, served, ret, lastRead, firstRead, lastSet,
                   jn, tl, rt>>

\* the host edits the list it passed to init_webapp()
HostAppendExtra ==
    /\ HostMay
    /\ webcall.done
    /\ extras' = Append(extras, HostRule)
    /\ ops' = ops + 1
    /\ UNCHANGED <<svc, env, fs, phase, served, ret, lastRead, firstRead, lastSet,
                   webcall, firstcall, jn, tl, rt>>

\* the host calls service.start(): the port is bound and the call never returns
Start ==
    /\ phase = "initialized"
    /\ svc.webapp.made
    /\ served' = start(svc)
    /\ svc' = Called(svc, "start")
    /\ phase' = "running"
    /\ UNCHANGED <<env, fs, ops, ret, lastRead, firstRead, lastSet, webcall,
                   firstcall, extras, jn, tl, rt>>

Next ==
    \/ Initialize
    \/ HostRead
    \/ HostSet
    \/ SetEnv
    \/ HostAppendRule
    \/ HostDeleteRule
    \/ HostAddSetting
    \/ HostDeleteSetting
    \/ HostInitLogging
    \/ InitWebapp
    \/ HostAppendExtra
    \/ Start

Spec == Init /\ [][Next]_vars

\* ------------------------------------------------------------------------
\* Properties of the service's life
\* ------------------------------------------------------------------------

LaterSteps ==
    {"init_logging", "init_rules", "init_settings", "init_loader", "init_webapp",
     "start"}

StepsRun(w) == {w.calls[i] : i \in 1..Len(w.calls)}

\* C1: in a run where handle_config finds generate_config true, the generated
\* script is printed, the process exits with status 0, and none of
\* init_logging, init_rules, init_settings, init_loader, init_webapp, start has
\* run: no web application is built and no port is bound.
C1_GenerateExits ==
    svc.gen_seen =>
        /\ phase = "exited"
        /\ svc.exited
        /\ svc.exit_code = 0
        /\ Len(svc.stdout) = Len(ScriptOrder)
        /\ {svc.stdout[i].trait : i \in 1..Len(svc.stdout)} = TraitNames
        /\ StepsRun(svc) \cap LaterSteps = {}
        /\ svc.rules = <<>>
        /\ ~svc.webapp.made
        /\ served = NoServed

\* C1's case: a run that handle_config ended on the generate-config flag
C1_Witness == svc.gen_seen /\ phase = "exited" /\ svc.stdout # <<>>

\* C2, as stated: when the config file exists, no default rule of any
\* configuration value has been evaluated at the moment the file is loaded.
C2_NoDefaultBeforeLoad ==
    (svc.load.done /\ svc.load.exists) => svc.load.evald = {}

\* C2, amended: when the config file exists, its assignments are applied as
\* explicit values before the default rule of service_prefix,
\* static_url_prefix, static_path or logo_file is evaluated; the default rule
\* of config_file is evaluated before the load exactly when config_file was
\* not assigned, and it evaluates the default rule of name when name was not
\* assigned either.
C2_FileBeforeOtherDefaults ==
    (svc.load.done /\ svc.load.exists) =>
        /\ svc.load.evald \subseteq {"config_file", "name"}
        /\ ("config_file" \in svc.load.evald)
              <=> ("config_file" \notin svc.load.explicit_before)
        /\ ("name" \in svc.load.evald)
              <=> ({"config_file", "name"} \cap svc.load.explicit_before = {})
        /\ \A t \in svc.load.cfg.has \ svc.cli_config.has :
              /\ t \in svc.load.after.explicit
              /\ svc.load.after.val[t] = svc.load.cfg.val[t]

\* C2's case: an existing file assigned name after name's default had been
\* evaluated to find the file
C2_Witness ==
    /\ svc.load.done /\ svc.load.exists
    /\ "name" \in svc.load.cfg.has
    /\ "name" \in svc.load.evald
    /\ svc.load.after.val.name = <<"other">>
    /\ svc.load.file = default_config_file(ModuleName)

\* C3, as stated: a value that has been read keeps the value that read
\* returned (a later assignment is rejected and changes nothing).
C3_FrozenAfterRead ==
    \A t \in HostTraits : firstRead[t].done => svc.traits.val[t] = firstRead[t].val

\* C3, amended: reading a value again with no write to it in between returns
\* the identical value, whatever happened to the environment or to other
\* values meanwhile, and its default rule runs at most once; an assignment
\* after a read is accepted: it replaces the stored value and changes no other
\* value, so a value derived earlier keeps what it was derived from.
C3_MemoizedNotFrozen ==
    /\ \A t \in HostTraits :
          lastRead[t].done => Read(svc.traits, t, env).val[t] = lastRead[t].val
    /\ \A t \in DynTraits : svc.traits.evals[t] <= 1
    /\ lastSet.done =>
          /\ svc.traits.val[lastSet.t] = lastSet.v
          /\ svc.traits.has = lastSet.before.has \cup {lastSet.t}
          /\ \A u \in TraitNames \ {lastSet.t} :
                svc.traits.val[u] = lastSet.before.val[u]

\* C3's case: name assigned after service_prefix was derived from it and read:
\* the two now disagree
C3_Witness ==
    /\ lastSet.done /\ lastSet.t = "name"
    /\ lastRead["service_prefix"].done
    /\ "service_prefix" \notin svc.traits.explicit
    /\ ~env.set
    /\ svc.traits.val.name = HostValue.name
    /\ svc.traits.val.service_prefix
          # <<SLASH, "services", SLASH>> \o svc.traits.val.name \o <<SLASH>>

\* C4: the application is built from the host's rules followed by the service's
\* rules as they were when init_webapp was called, both in their own order,
\* and from exactly the settings of that moment.
C4_ExtraThenRules ==
    webcall.done =>
        /\ svc.webapp.made
        /\ Len(svc.webapp.rules) = Len(webcall.extra) + Len(webcall.rules)
        /\ \A i \in 1..Len(webcall.extra) : svc.webapp.rules[i] = webcall.extra[i]
        /\ \A j \in 1..Len(webcall.rules) :
              svc.webapp.rules[Len(webcall.extra) + j] = webcall.rules[j]
        /\ DOMAIN svc.webapp.settings = DOMAIN webcall.settings
        /\ \A k \in DOMAIN webcall.settings :
              svc.webapp.settings[k] = webcall.settings[k]

\* C4's case: init_webapp called with a host rule on a rules list the host had
\* edited
C4_Witness ==
    /\ webcall.done
    /\ webcall.extra = <<ExtraRule>>
    /\ Len(webcall.rules) = 3
    /\ webcall.rules[3] = HostRule
    /\ svc.webapp.rules[1] = ExtraRule

\* C5, as stated: what start() serves is what the first init_webapp() call
\* captured, whatever the host did afterwards, another init_webapp() included.
C5_FirstCallServed ==
    phase = "running" =>
        /\ served.rules = firstcall.extra \o firstcall.rules
        /\ served.settings = firstcall.settings

\* C5, amended: what start() serves is what the latest init_webapp() call
\* captured; edits of the rules list or the settings map after that call have
\* no effect, and a later init_webapp() call replaces the application.
C5_LatestCallServed ==
    /\ phase = "running" =>
          /\ served.rules = webcall.extra \o webcall.rules
          /\ served.settings = webcall.settings
          /\ served.port = svc.traits.val.port
    /\ (webcall.done /\ phase # "running") => served = NoServed

\* C5's case: serving after the host edited the rules behind a built
\* application
C5_Witness ==
    /\ phase = "running"
    /\ svc.rules # webcall.rules
    /\ served.rules = webcall.extra \o webcall.rules

\* the prefix C8 states: the assigned value, else the environment variable,
\* else /services/{name}/
ResolvedPrefix(st, e) ==
    IF "service_prefix" \in st.explicit THEN st.val.service_prefix
    ELSE IF e.set THEN e.val
    ELSE <<SLASH, "services", SLASH>> \o st.val.name \o <<SLASH>>

C9_LoggingRewired ==
    "init_logging" \in StepsRun(svc) =>
        /\ ~svc.loggers.service.propagate
        /\ svc.loggers.app_log = svc.loggers.service.name
        /\ svc.loggers.access_log = svc.loggers.service.name
        /\ svc.loggers.gen_log = svc.loggers.service.name
        /\ svc.loggers.tornado.parent = "service"
        /\ svc.loggers.tornado.propagate
        /\ \A i \in 1..Len(svc.loggers.service.handlers) :
              svc.loggers.service.handlers[i].formatter = CustomFormatter
        /\ \A o \in LogOrigins :
              Delivered(svc.loggers, o) = svc.loggers.service.handlers

\* C9 without the formatter: the rewiring init_logging does perform
C9_RewiredOnly ==
    "init_logging" \in StepsRun(svc) =>
        /\ ~svc.loggers.service.propagate
        /\ svc.loggers.tornado.parent = "service"
        /\ \A o \in LogOrigins :
              Delivered(svc.loggers, o) = svc.loggers.service.handlers

\* ------------------------------------------------------------------------
\* The default static_url_prefix, over every short service_prefix
\* ------------------------------------------------------------------------

PrefixAlphabet == {SLASH, "a", "b"}

JoinInit ==
    /\ \E p \in Str(MaxPrefixLen, PrefixAlphabet) :
          jn = [phase |-> "input", prefix |-> p, result |-> <<>>]
    /\ svc = NewService(EmptyConfig, CustomFormatter)
    /\ env = NoEnv
    /\ fs = [f \in ConfigFileNames |-> NoFile]
    /\ phase = "created"
    /\ served = NoServed
    /\ ops = 0
    /\ ret = NoRet
    /\ lastRead = [t \in HostTraits |-> NoRead]
    /\ firstRead = [t \in HostTraits |-> NoRead]
    /\ lastSet = NoSet
    /\ webcall = NoCall
    /\ firstcall = NoCall
    /\ extras = <<>>
    /\ tl = TlIdle
    /\ rt = RtIdle

\* static_url_prefix is read on a service whose service_prefix is jn.prefix
JoinDefault ==
    /\ jn.phase = "input"
    /\ LET st == ReadStaticUrlPrefix(
                    SetTrait(NewTraits, "service_prefix", jn.prefix), NoEnv)
       IN  jn' = [jn EXCEPT !.phase = "done", !.result = st.val.static_url_prefix]
    /\ UNCHANGED <<mainvars, tl, rt>>

JoinNext == JoinDefault

SpecJoin == JoinInit /\ [][JoinNext]_vars

STATIC_SEG == <<"static", SLASH>>

\* service_prefix with static/ appended once: one slash between the two, the
\* prefix otherwise as it is
AppendedOnce(p) ==
    IF p = <<>> THEN STATIC_SEG ELSE RStrip(p) \o <<SLASH>> \o STATIC_SEG

\* a run of leading slashes replaced by one slash
CollapseLeading(p) ==
    IF p # <<>> /\ Head(p) = SLASH THEN <<SLASH>> \o LStrip(p) ELSE p

\* C6, as stated: for every service_prefix the default static_url_prefix is
\* service_prefix with static/ appended exactly once.
C6_AppendedOnce ==
    jn.phase = "done" => jn.result = AppendedOnce(jn.prefix)

\* C6, amended: the default static_url_prefix is service_prefix with static/
\* appended exactly once for every service_prefix that does not begin with
\* two or more slashes; a run of leading slashes is collapsed to one slash
\* first.  In every case the result ends in static/ with exactly one slash
\* before it unless the result is static/ alone.
C6_AppendedOnceAfterCollapse ==
    jn.phase = "done" =>
        LET n == Len(jn.result)
        IN  /\ jn.result = AppendedOnce(CollapseLeading(jn.prefix))
            /\ (Len(jn.prefix) < 2 \/ jn.prefix[1] # SLASH \/ jn.prefix[2] # SLASH)
                  => jn.result = AppendedOnce(jn.prefix)
            /\ n >= 2 /\ SubSeq(jn.result, n - 1, n) = STATIC_SEG
            /\ n >= 3 => jn.result[n - 2] = SLASH
            /\ n >= 4 => jn.result[n - 3] # SLASH
            /\ n = 2 <=> jn.prefix = <<>>

\* C6's case: prefixes with and without a trailing slash joined; here one that
\* ends without a slash and begins with two
C6_Witness ==
    /\ jn.phase = "done"
    /\ jn.prefix = <<SLASH, SLASH, "a">>
    /\ jn.result = <<SLASH, "a", SLASH, "static", SLASH>>

\* ------------------------------------------------------------------------
\* Template lookup through the loader chain
\* ------------------------------------------------------------------------

OVERRIDE_DIR == <<"override">>

SERVICE_DIR == base_template_paths(ModuleName)[1]

SHARED_DIR == base_template_paths(ModuleName)[2]

PAGE == <<"page.html">>

PREFIXED_PAGE == <<"templates", SLASH>> \o PAGE

TemplateFiles == {PAGE, PREFIXED_PAGE}

TemplateDirs == {OVERRIDE_DIR, SERVICE_DIR, SHARED_DIR}

LoaderInit ==
    /\ \E tp \in {<<>>, <<OVERRIDE_DIR>>}, d \in [TemplateDirs -> SUBSET TemplateFiles] :
          tl = [phase |-> "input", template_paths |-> tp, disk |-> d,
                template |-> <<>>, result |-> NotFound]
    /\ svc = NewService(EmptyConfig, CustomFormatter)
    /\ env = NoEnv
    /\ fs = [f \in ConfigFileNames |-> NoFile]
    /\ phase = "created"
    /\ served = NoServed
    /\ ops = 0
    /\ ret = NoRet
    /\ lastRead = [t \in HostTraits |-> NoRead]
    /\ firstRead = [t \in HostTraits |-> NoRead]
    /\ lastSet = NoSet
    /\ webcall = NoCall
    /\ firstcall = NoCall
    /\ extras = <<>>
    /\ jn = JnIdle
    /\ rt = RtIdle

\* a template is requested from the loader init_loader built for a service
\* with these template_paths
LoaderLookup ==
    /\ tl.phase = "input"
    /\ \E t \in TemplateFiles :
          LET w == init_loader_step(
                      [svc EXCEPT !.traits =
                          SetTrait(@, "template_paths", tl.template_paths)])
          IN  tl' = [tl EXCEPT !.phase = "done", !.template = t,
                               !.result = ChoiceGetSource(w.loader, tl.disk, t)]
    /\ UNCHANGED <<mainvars, jn, rt>>

LoaderNext == LoaderLookup

SpecLoader == LoaderInit /\ [][LoaderNext]_vars

\* C10, as stated: a name under templates/ is resolved only against the
\* service-specific bundled path, also when that path does not hold it.
C10_OnlyServicePath ==
    (tl.phase = "done" /\ tl.template = PREFIXED_PAGE /\ tl.result.found) =>
        tl.result.dir = SERVICE_DIR

\* C10, amended: a name templates/X is resolved against the service-specific
\* bundled path first, and X there wins over a same-named X in a caller
\* override path or the shared bundled path, which is never returned; only
\* when the service-specific path does not hold X does the chain go on to the
\* unscoped loader, which looks for the whole name templates/X in the override
\* paths, the service-specific path and the shared path, in this order.
C10_ServicePathFirst ==
    (tl.phase = "done" /\ tl.template = PREFIXED_PAGE) =>
        /\ PAGE \in tl.disk[SERVICE_DIR] =>
              tl.result = [found |-> TRUE, dir |-> SERVICE_DIR, file |-> PAGE]
        /\ tl.result.found => (tl.result.file = PAGE => tl.result.dir = SERVICE_DIR)
        /\ PAGE \notin tl.disk[SERVICE_DIR] =>
              LET order == tl.template_paths \o <<SERVICE_DIR, SHARED_DIR>>
                  hits == {i \in 1..Len(order) : PREFIXED_PAGE \in tl.disk[order[i]]}
              IN  IF hits = {} THEN ~tl.result.found
                  ELSE tl.result =
                          [found |-> TRUE,
                           dir |-> order[CHOOSE i \in hits : \A j \in hits : i <= j],
                           file |-> PREFIXED_PAGE]

\* C10's case: the override path and the shared path hold a same-named
\* template and the service-specific path holds it too
C10_Witness ==
    /\ tl.phase = "done"
    /\ tl.template = PREFIXED_PAGE
    /\ tl.template_paths = <<OVERRIDE_DIR>>
    /\ PAGE \in tl.disk[OVERRIDE_DIR]
    /\ PAGE \in tl.disk[SHARED_DIR]
    /\ PAGE \in tl.disk[SERVICE_DIR]
    /\ tl.result.dir = SERVICE_DIR

\* ------------------------------------------------------------------------
\* The generate-config round trip
\* ------------------------------------------------------------------------

\* explicit values of the first run, one of each type
RtKws ==
    {Merge(Merge(Merge(a, b), Merge(c, d)), e) :
        a \in {EmptyConfig, Cfg1("name", <<"demo">>)},
        b \in {EmptyConfig, Cfg1("port", 9999)},
        c \in {EmptyConfig, Cfg1("template_paths", <<OVERRIDE_DIR>>)},
        d \in {EmptyConfig, Cfg1("service_prefix", <<SLASH, "p", SLASH>>)},
        e \in {EmptyConfig, Cfg1("logo_file", <<"logo.png">>)}}

\* every configuration value, resolved
ResolveAll(st, e) == [t \in TraitNames |-> Read(st, t, e).val[t]]

RoundTripInit ==
    /\ \E kw \in RtKws, e \in Envs : rt = [RtIdle EXCEPT !.phase = "start", !.kw = kw, !.env = e]
    /\ svc = NewService(EmptyConfig, CustomFormatter)
    /\ env = NoEnv
    /\ fs = [f \in ConfigFileNames |-> NoFile]
    /\ phase = "created"
    /\ served = NoServed
    /\ ops = 0
    /\ ret = NoRet
    /\ lastRead = [t \in HostTraits |-> NoRead]
    /\ firstRead = [t \in HostTraits |-> NoRead]
    /\ lastSet = NoSet
    /\ webcall = NoCall
    /\ firstcall = NoCall
    /\ extras = <<>>
    /\ jn = JnIdle
    /\ tl = TlIdle

\* the first run: the service with its explicit values and --generate-config
RoundTripGenerate ==
    /\ rt.phase = "start"
    /\ LET w == initialize(NewService(rt.kw, CustomFormatter),
                           <<"--generate-config">>, rt.env, fs)
       IN  rt' = [rt EXCEPT !.phase = "generated", !.script = w.stdout,
                            !.first = w.traits]
    /\ UNCHANGED <<mainvars, jn, tl>>

\* the second run: a fresh service that finds the printed script as its config
\* file
RoundTripReload ==
    /\ rt.phase = "generated"
    /\ LET file == [exists |-> TRUE, cfg |-> ParseScript(rt.script)]
           w == initialize(NewService(EmptyConfig, CustomFormatter), <<>>, rt.env,
                           [f \in ConfigFileNames |-> file])
       IN  rt' = [rt EXCEPT !.phase = "reloaded", !.second = w.traits,
                            !.second_load = w.load]
    /\ UNCHANGED <<mainvars, jn, tl>>

RoundTripNext == RoundTripGenerate \/ RoundTripReload

SpecRoundTrip == RoundTripInit /\ [][RoundTripNext]_vars

\* C7, as stated: the second run resolves every configuration value (the
\* generate_config flag itself left aside) to the value the first run resolved.
C7_RoundTrip ==
    rt.phase = "reloaded" =>
        \A t \in TraitNames \ {"generate_config"} :
            ResolveAll(rt.second, rt.env)[t] = ResolveAll(rt.first, rt.env)[t]

\* the values a service with nothing assigned resolves
AllDefaults(e) ==
    LET prefix == IF e.set THEN e.val
                  ELSE <<SLASH, "services", SLASH, "jupyterhub_service_page", SLASH>>
    IN  [name |-> <<"jupyterhub_service_page">>,
         config_file |-> <<"jupyterhub_service_page", "_config.py">>,
         generate_config |-> FALSE,
         service_prefix |-> prefix,
         static_url_prefix |-> prefix \o <<"static", SLASH>>,
         static_path |-> <<"DATA", SLASH, "static">>,
         logo_file |-> <<"DATA", SLASH, "static", SLASH, "images", SLASH,
                         "jupyterhub-80.png">>,
         port |-> 8888,
         template_paths |-> <<>>]

\* C7, amended: the printed script holds the default configuration, every
\* assignment commented out; loaded as the config file of a second run it
\* assigns nothing, so the second run resolves every configuration value to
\* its default, and agrees with the first run on exactly the values that
\* resolved to their default there.
C7_DefaultsOnly ==
    rt.phase = "reloaded" =>
        /\ rt.second_load.done /\ rt.second_load.exists
        /\ rt.second_load.cfg.has = {}
        /\ rt.second.explicit = {}
        /\ ResolveAll(rt.second, rt.env) = AllDefaults(rt.env)
        /\ \A t \in TraitNames :
              (ResolveAll(rt.second, rt.env)[t] = ResolveAll(rt.first, rt.env)[t])
                 <=> (ResolveAll(rt.first, rt.env)[t] = AllDefaults(rt.env)[t])

\* C7's case: a first run with an assigned string, integer and list value,
\* generated and loaded back
C7_Witness ==
    /\ rt.phase = "reloaded"
    /\ {"name", "port", "template_paths"} \subseteq rt.kw.has
    /\ rt.first.val.port = 9999
    /\ rt.second.val.port = 8888
    /\ Len(rt.script) = Len(ScriptOrder)

====
